---- MODULE Spec2Model ----
(***************************************************************************)
(* fabulist: the Part progression engine (fabulist_core/src/story/part.rs) *)
(* and the BinaryExpr builder (fabulist_lang/src/ast/expr/binary.rs).      *)
(*                                                                         *)
(* Option<T> is modelled as a sequence of length 0 or 1: None == << >>,    *)
(* Some(x) == << x >>.  Rust indices are 0-based; Get(s, i) reads the      *)
(* element a Vec holds at the 0-based index i.                             *)
(***************************************************************************)
EXTENDS Naturals, Sequences, FiniteSets, TLC

\* ---------------------------------------------------------------- bounds
MaxDialogues == 2

PartIds == {"A", "B"}
\* ids a Dialogue may name as a jump target; "Z" is the id of no Part
Targets == PartIds \cup {"Z"}
DialogueNames == {"d1", "d2"}

\* ---------------------------------------------------------------- Option
None == << >>

Some(x) == << x >>

Unwrap(o) == o[1]

\* Vec::get with a 0-based index
Get(s, i) == IF i < Len(s) THEN Some(s[i + 1]) ELSE None

ChoiceIndexes == {None, Some(0)}

\* ---------------------------------------------------------------- values
\* Result::Ok(v) / Result::Err(e)
Ok(v) == [tag |-> "Ok", value |-> v]

Err(e) == [tag |-> "Err", error |-> e]

DialogueIndex(part_key, dialogue_index) ==
    [part_key |-> part_key, dialogue_index |-> dialogue_index]

EndOfStory == [kind |-> "EndOfStory"]

DialogueDoesNotExist(dialogue_index, part_key) ==
    [kind |-> "DialogueDoesNotExist", dialogue_index |-> dialogue_index,
     part_key |-> part_key]

\* an error raised by the advanced Dialogue's own next
DialogueError == [kind |-> "DialogueError"]

\* ---------------------------------------------------------------- State
\* the cursor of the runtime State
NewState == [current_part |-> None, current_dialogue |-> None]

set_current_part(s, p) == [s EXCEPT !.current_part = p]

set_current_dialogue(s, d) == [s EXCEPT !.current_dialogue = d]

reset(s) == [s EXCEPT !.current_part = None, !.current_dialogue = None]

\* every cursor a State can hold within the bounds
CursorStates ==
    [current_part : {None} \cup {Some(t) : t \in Targets},
     current_dialogue : {None} \cup {Some(i) : i \in 0..MaxDialogues}]

\* ---------------------------------------------------------------- Dialogue
\* Dialogue::next is a black box to the Part: it answers with a jump target,
\* with "continue", or with an error of its own, and leaves the cursor alone.
DialogueNextOutcomes ==
    {Ok(None)} \cup {Ok(Some(t)) : t \in Targets} \cup {Err(DialogueError)}

\* ---------------------------------------------------------------- PartBuilder
PartBuilder_new(id) == [id |-> id, dialogues |-> << >>]

add_dialogue(builder, dialogue) ==
    [builder EXCEPT !.dialogues = Append(builder.dialogues, dialogue)]

build(builder) == [id |-> builder.id, dialogues |-> builder.dialogues]

\* ---------------------------------------------------------------- Part
\* variant: an index past the end is clamped to the last dialogue
PartDialogue_clamped(part, index) ==
    IF part.dialogues = << >>
    THEN Err(DialogueDoesNotExist(index, part.id))
    ELSE IF index < Len(part.dialogues)
    THEN Ok(part.dialogues[index + 1])
    ELSE Ok(part.dialogues[Len(part.dialogues)])

\* Part::dialogue(index)
PartDialogue(part, index) ==
    LET found == Get(part.dialogues, index)
    IN  IF found # None
        THEN Ok(Unwrap(found))
        ELSE Err(DialogueDoesNotExist(index, part.id))

\* one outcome of Part::next: the state it leaves, the value it returns, and
\* the index of the dialogue whose next it called (None when it called none)
Outcome(s, r, adv) == [state |-> s, result |-> r, advanced |-> adv]

\* variant: EndOfStory without the reset
Terminate_noReset(state) == Outcome(state, Err(EndOfStory), None)

\* variant: the reset clears current_dialogue only
Terminate_partial(state) ==
    Outcome(set_current_dialogue(state, None), Err(EndOfStory), None)

\* part.rs 98-99: state.reset(); Err(Error::EndOfStory)
Terminate(state) == Outcome(reset(state), Err(EndOfStory), None)

\* variant: the position is returned but the cursor is not moved
Bootstrap_noSet(part, state) ==
    Outcome(state, Ok(DialogueIndex(part.id, 0)), None)

\* part.rs 62-67
Bootstrap(part, state) ==
    Outcome(set_current_dialogue(state, Some(0)),
            Ok(DialogueIndex(part.id, 0)), None)

\* variant: the jump restarts the index but keeps the old current_part
Jump_stalePart(state, next_part) ==
    Outcome(set_current_dialogue(state, Some(0)),
            Ok(DialogueIndex(next_part, 0)), None)

\* part.rs 75-83
Jump(state, next_part) ==
    Outcome(set_current_dialogue(set_current_part(state, Some(next_part)),
                                 Some(0)),
            Ok(DialogueIndex(next_part, 0)), None)

\* variant: the index steps by two
Continue_skip(part, state, dialogue_index) ==
    LET next_dialogue_index == dialogue_index + 2
    IN  IF Get(part.dialogues, next_dialogue_index) # None
        THEN Outcome(set_current_dialogue(state, Some(next_dialogue_index)),
                     Ok(DialogueIndex(part.id, next_dialogue_index)), None)
        ELSE Terminate(state)

\* variant: the index steps without looking for a dialogue at i+1
Continue_unchecked(part, state, dialogue_index) ==
    LET next_dialogue_index == dialogue_index + 1
    IN  Outcome(set_current_dialogue(state, Some(next_dialogue_index)),
                Ok(DialogueIndex(part.id, next_dialogue_index)), None)

\* part.rs 84-94, falling through to 98-99
Continue(part, state, dialogue_index) ==
    LET next_dialogue_index == dialogue_index + 1
    IN  IF Get(part.dialogues, next_dialogue_index) # None
        THEN Outcome(set_current_dialogue(state, Some(next_dialogue_index)),
                     Ok(DialogueIndex(part.id, next_dialogue_index)), None)
        ELSE Terminate(state)

\* variant: the bootstrap does not look whether the Part has a dialogue
PartNext_noEmptyCheck(part, state, choice_index, next_result) ==
    IF state.current_dialogue = None
    THEN Bootstrap(part, state)
    ELSE LET dialogue_index == Unwrap(state.current_dialogue)
             dialogue == PartDialogue(part, dialogue_index)
         IN  IF dialogue.tag = "Err"
             THEN Outcome(state, dialogue, None)
             ELSE IF next_result.tag = "Err"
             THEN Outcome(state, next_result, Some(dialogue_index))
             ELSE LET o == IF next_result.value # None
                           THEN Jump(state, Unwrap(next_result.value))
                           ELSE Continue(part, state, dialogue_index)
                  IN  [o EXCEPT !.advanced = Some(dialogue_index)]

\* Part::next(state, choice_index); next_result is what the advanced
\* dialogue's next answers when it is called
PartNext(part, state, choice_index, next_result) ==
    IF state.current_dialogue = None
    THEN IF part.dialogues # << >>
         THEN Bootstrap(part, state)
         ELSE Terminate(state)
    ELSE LET dialogue_index == Unwrap(state.current_dialogue)
             dialogue == PartDialogue(part, dialogue_index)
         IN  IF dialogue.tag = "Err"
             THEN Outcome(state, dialogue, None)
             ELSE IF next_result.tag = "Err"
             THEN Outcome(state, next_result, Some(dialogue_index))
             ELSE LET o == IF next_result.value # None
                           THEN Jump(state, Unwrap(next_result.value))
                           ELSE Continue(part, state, dialogue_index)
                  IN  [o EXCEPT !.advanced = Some(dialogue_index)]

\* ---------------------------------------------------------------- BinaryExpr
\* Error::map_span(span, message); a span is named by the node it covers
map_span(span, message) == [span |-> span, message |-> message]

\* binary.rs 43-56: the operator token's text to its BinaryOperator
BinaryOperatorOf(token) ==
    CASE token = "/"  -> Some("Divide")
      [] token = "*"  -> Some("Multiply")
      [] token = "+"  -> Some("Addition")
      [] token = "-"  -> Some("Subtraction")
      [] token = ">"  -> Some("GreaterThan")
      [] token = ">=" -> Some("GreaterEqual")
      [] token = "<"  -> Some("LessThan")
      [] token = "<=" -> Some("LessEqual")
      [] token = "==" -> Some("EqualEqual")
      [] token = "!=" -> Some("NotEqual")
      [] token = "&&" -> Some("And")
      [] token = "||" -> Some("Or")
      [] OTHER        -> None

OperatorTokens ==
    {"/", "*", "+", "-", ">", ">=", "<", "<=", "==", "!=", "&&", "||"}

\* token texts a node tagged "operator" may carry; "%" and "=" are no operator
Tokens == OperatorTokens \cup {"%", "="}

\* a sub-capture holding an expression: its text, and whether Expr::try_from
\* accepts it
SubNodes ==
    {[text |-> "5", valid |-> TRUE], [text |-> "x", valid |-> TRUE],
     [text |-> "@", valid |-> FALSE]}

\* a binary-expression parse node: its tagged sub-captures, each present or not
Nodes ==
    [left : {None} \cup {Some(n) : n \in SubNodes},
     operator : {None} \cup {Some(t) : t \in Tokens},
     right : {None} \cup {Some(n) : n \in SubNodes}]

\* Expr::try_from on a sub-capture
ExprTryFrom(sub) ==
    IF sub.valid THEN Ok(sub.text)
    ELSE Err(map_span(sub.text, "Invalid expression"))

\* BinaryExpr::try_from(value)
BinaryExprTryFrom(value) ==
    LET left == IF value.left # None
                THEN ExprTryFrom(Unwrap(value.left))
                ELSE Err(map_span("value", "Expected a value expression"))
        operator == IF value.operator # None
                    THEN LET op == BinaryOperatorOf(Unwrap(value.operator))
                         IN  IF op # None THEN Ok(op)
                             ELSE Err(map_span("operator",
                                               "Invalid binary operator"))
                    ELSE Ok(None)
        right == IF value.right # None
                 THEN LET r == ExprTryFrom(Unwrap(value.right))
                      IN  IF r.tag = "Ok" THEN Ok(Some(r.value)) ELSE r
                 ELSE Ok(None)
    IN  IF left.tag = "Err" THEN left
        ELSE IF operator.tag = "Err" THEN operator
        ELSE IF right.tag = "Err" THEN right
        ELSE Ok([left |-> left.value, operator |-> operator.value,
                 right |-> right.value])

\* ---------------------------------------------------------------- variables
VARIABLES
    builders,   \* PartBuilder of each id, None once build() consumed it
    parts,      \* the built Part of each id, None before build()
    added,      \* per id, the dialogues handed to add_dialogue, in call order
    state,      \* the session's State cursor
    result,     \* what the last Part::next / Part::dialogue call returned
    last,       \* record of the last call
    called,     \* ids of the Parts next has been called on in this session
    node,       \* the parse node handed to BinaryExpr::try_from
    expr        \* what BinaryExpr::try_from returned for node

vars == <<builders, parts, added, state, result, last, called, node, expr>>

NoCall == [op |-> "none"]

NoResult == [tag |-> "None"]

NoNode == [left |-> None, operator |-> None, right |-> None]

InitParts ==
    /\ builders = [p \in PartIds |-> Some(PartBuilder_new(p))]
    /\ parts = [p \in PartIds |-> None]
    /\ added = [p \in PartIds |-> << >>]
    /\ result = NoResult
    /\ last = NoCall
    /\ called = {}

Init ==
    /\ InitParts
    /\ state = NewState
    /\ node = NoNode
    /\ expr = NoResult

\* a session handed a State whose cursor was positioned by its owner
InitAny ==
    /\ InitParts
    /\ state \in CursorStates
    /\ node = NoNode
    /\ expr = NoResult

\* the front-end alone: a parse node awaiting lowering
InitBinary ==
    /\ InitParts
    /\ state = NewState
    /\ node \in Nodes
    /\ expr = NoResult

AddDialogue(p, d) ==
    /\ builders[p] # None
    /\ Len(Unwrap(builders[p]).dialogues) < MaxDialogues
    /\ builders' = [builders EXCEPT ![p] = Some(add_dialogue(Unwrap(@), d))]
    /\ added' = [added EXCEPT ![p] = Append(@, d)]
    /\ UNCHANGED <<parts, state, result, last, called, node, expr>>

Build(p) ==
    /\ builders[p] # None
    /\ parts' = [parts EXCEPT ![p] = Some(build(Unwrap(builders[p])))]
    /\ builders' = [builders EXCEPT ![p] = None]
    /\ UNCHANGED <<added, state, result, last, called, node, expr>>

CallDialogue(p, k) ==
    /\ parts[p] # None
    /\ result' = PartDialogue(Unwrap(parts[p]), k)
    /\ last' = [op |-> "dialogue", part |-> p, index |-> k]
    /\ UNCHANGED <<builders, parts, added, state, called, node, expr>>

CallNext(p, choice_index, next_result) ==
    /\ parts[p] # None
    /\ LET o == PartNext(Unwrap(parts[p]), state, choice_index, next_result)
       IN  /\ state' = o.state
           /\ result' = o.result
           /\ last' = [op |-> "next", part |-> p, choice_index |-> choice_index,
                       pre |-> state, advanced |-> o.advanced,
                       signal |-> IF o.advanced # None THEN next_result
                                  ELSE NoResult,
                       first |-> (called = {})]
    /\ called' = called \cup {p}
    /\ UNCHANGED <<builders, parts, added, node, expr>>

Next ==
    \/ \E p \in PartIds, d \in DialogueNames : AddDialogue(p, d)
    \/ \E p \in PartIds : Build(p)
    \/ \E p \in PartIds, k \in 0..(MaxDialogues + 1) : CallDialogue(p, k)
    \/ \E p \in PartIds, c \in ChoiceIndexes, r \in DialogueNextOutcomes :
           CallNext(p, c, r)

\* lowering the pending parse node
Lower ==
    /\ expr = NoResult
    /\ expr' = BinaryExprTryFrom(node)
    /\ UNCHANGED <<builders, parts, added, state, result, last, called, node>>

NextBinary == Lower

Spec == Init /\ [][Next]_vars

SpecBinary == InitBinary /\ [][NextBinary]_vars

SpecAny == InitAny /\ [][Next]_vars

TypeOK == state \in CursorStates

\* ---------------------------------------------------------------- properties
\* the Part the last next / dialogue call was made on
LastPart == Unwrap(parts[last.part])

IsNext == last.op = "next"

\* the last call was a next whose cursor named the in-range dialogue i
AdvancedAt(i) ==
    /\ IsNext
    /\ last.pre.current_dialogue = Some(i)
    /\ i < Len(LastPart.dialogues)

IsDialogueDoesNotExist(r) ==
    /\ r.tag = "Err"
    /\ r.error.kind = "DialogueDoesNotExist"

\* C1: a next call made with current_dialogue unset on a Part with at least
\* one dialogue returns the position (part.id, 0), leaves current_dialogue =
\* Some(0), and calls no dialogue's next.
C1_Bootstrap ==
    (IsNext /\ last.pre.current_dialogue = None /\ LastPart.dialogues # << >>)
        => /\ result = Ok(DialogueIndex(LastPart.id, 0))
           /\ state.current_dialogue = Some(0)
           /\ last.advanced = None

C1_Witness ==
    /\ IsNext
    /\ last.pre.current_dialogue = None
    /\ last.pre.current_part = Some("Z")
    /\ last.choice_index = Some(0)
    /\ Len(LastPart.dialogues) = 2
    /\ result = Ok(DialogueIndex(LastPart.id, 0))

\* C2: when the cursor names an in-range dialogue and that dialogue answers
\* with a jump target, next returns (target, 0) and sets current_part =
\* Some(target), current_dialogue = Some(0), whatever the target id is.
C2_Jump ==
    \A i \in 0..MaxDialogues, t \in Targets :
        (AdvancedAt(i) /\ last.signal = Ok(Some(t)))
            => /\ result = Ok(DialogueIndex(t, 0))
               /\ state.current_part = Some(t)
               /\ state.current_dialogue = Some(0)

\* a jump to "Z", the id of no Part, taken from dialogue 1
C2_Witness ==
    /\ AdvancedAt(1)
    /\ last.signal = Ok(Some("Z"))
    /\ state.current_part = Some("Z")

\* C3: when the cursor names the in-range dialogue i and that dialogue answers
\* "continue", next returns (part.id, i+1) and sets current_dialogue =
\* Some(i+1) exactly when the Part has a dialogue at i+1, and otherwise fails
\* with EndOfStory; the index moves by one or is cleared, nothing else.
C3_SequentialAdvance ==
    \A i \in 0..MaxDialogues :
        (AdvancedAt(i) /\ last.signal = Ok(None))
            => /\ IF i + 1 < Len(LastPart.dialogues)
                  THEN /\ result = Ok(DialogueIndex(LastPart.id, i + 1))
                       /\ state.current_dialogue = Some(i + 1)
                  ELSE /\ result = Err(EndOfStory)
                       /\ state.current_dialogue = None
               /\ state.current_dialogue \in {None, Some(i + 1)}

C3_Witness ==
    /\ AdvancedAt(0)
    /\ last.signal = Ok(None)
    /\ Len(LastPart.dialogues) = 2
    /\ result = Ok(DialogueIndex(LastPart.id, 1))

C5_FailureLeavesStateWhole ==
    (IsNext /\ result.tag = "Err")
        => (state = last.pre \/ state = NewState)

\* an error of the advanced dialogue, with a positioned cursor left as it was
C5_Witness ==
    /\ IsNext
    /\ result = Err(DialogueError)
    /\ last.pre.current_part # None
    /\ state = last.pre

\* C6: Part::dialogue(k) returns the k-th dialogue handed to add_dialogue when
\* k is below the dialogue count and DialogueDoesNotExist{k, part.id}
\* otherwise; next with current_dialogue = Some(k), k out of range, fails with
\* that same error, calls no dialogue's next and moves nothing.
C6_OutOfRangeSurfaced ==
    /\ last.op = "dialogue"
           => result = IF last.index < Len(added[last.part])
                       THEN Ok(added[last.part][last.index + 1])
                       ELSE Err(DialogueDoesNotExist(last.index,
                                                     LastPart.id))
    /\ \A k \in 0..MaxDialogues :
           (/\ IsNext
            /\ last.pre.current_dialogue = Some(k)
            /\ k >= Len(LastPart.dialogues))
               => /\ result = Err(DialogueDoesNotExist(k, LastPart.id))
                  /\ last.advanced = None
                  /\ state = last.pre

\* next on a non-empty Part with the cursor past its last dialogue
C6_Witness ==
    /\ IsNext
    /\ Len(LastPart.dialogues) = 1
    /\ last.pre.current_dialogue = Some(1)
    /\ IsDialogueDoesNotExist(result)

C8_CursorConsistency ==
    state.current_dialogue # None => state.current_part # None

\* C9: every BinaryExpr the builder returns has a right operand whenever it
\* has an operator; a node with "left" and "operator" but no "right" fails.
C9_OperatorNeedsRight ==
    /\ (expr.tag = "Ok" /\ expr.value.operator # None)
           => expr.value.right # None
    /\ (/\ expr # NoResult
        /\ node.left # None
        /\ node.operator # None
        /\ node.right = None) => expr.tag = "Err"

\* C10: while every next call of a session that started unpositioned was made
\* on one and the same Part, current_dialogue is None or below that Part's
\* dialogue count, and no next call returned DialogueDoesNotExist.
C10_OnePartStaysInRange ==
    /\ called = {} => state.current_dialogue = None
    /\ \A p \in PartIds :
           called = {p}
               => /\ \/ state.current_dialogue = None
                     \/ Unwrap(state.current_dialogue)
                            < Len(Unwrap(parts[p]).dialogues)
                  /\ IsNext => ~IsDialogueDoesNotExist(result)

\* a session on Part "A" alone that jumped to "B" and then stepped to index 1
C10_Witness ==
    /\ called = {"A"}
    /\ state.current_part = Some("B")
    /\ state.current_dialogue = Some(1)
====
